---- MODULE Spec2Model ----
(***************************************************************************)
(* Model of the fund monitor of src/main.py: the trade ledger              *)
(* (data/trade_log.csv), the ledger queries, compute_signals,              *)
(* execute_signals and update_portfolio, driven by main().                 *)
(*                                                                         *)
(* Representation.                                                         *)
(*  - A nav is an integer number of 1/1000 units (5900 is 5.900).          *)
(*  - A date "YYYY-MM-DD" is its day number (an integer >= 1); the ISO     *)
(*    format orders strings as it orders days, so max() over date strings  *)
(*    is the maximum of day numbers.  The empty string "" is EmptyDate and *)
(*    Python's None is None; both are falsy.                               *)
(*  - A float that the code computes by division (ma250, deviation_pct,    *)
(*    avg_cost, pnl_pct, drop_from_last) is an exact fraction              *)
(*    [num, den] in lowest terms with den > 0; [num |-> 0, den |-> 0] is   *)
(*    None.  Comparisons are done by cross multiplication.  On every price *)
(*    series of PriceCases the code's float arithmetic and the exact       *)
(*    fraction fall on the same side of every threshold.                   *)
(*  - The provider's latest price date never moves backwards from one run  *)
(*    to the next, and is never later than the run day.                    *)
(*  - A row of the CSV file holds the values csv.writer was given; int()   *)
(*    and float() of load_trade_log's strings give those values back.      *)
(*  - A reason or a block reason (an f-string in the code) is a record     *)
(*    [kind, n]: the message it is, and the number it names.               *)
(***************************************************************************)
EXTENDS Integers, Sequences, FiniteSets, TLC

VARIABLES
    ledger,      \* rows of data/trade_log.csv, in file order
    portfolio,   \* rows of data/portfolio.csv
    config,      \* config["funds"]: the configured funds, fixed
    today,       \* day number of datetime.now() of the latest run
    pc,          \* position of main(): "idle", "computed", "executed", "error"
    trade_log,   \* compute_signals' local: the ledger as loaded
    histories,   \* what fetch_nav_history returned for each fund in the run in
                 \* progress, each series kept as its shape [n, last_date, prev, cur]
    signals,     \* the Signal list of the run in progress
    executed,    \* the executed subset of the run in progress
    dry_run,     \* args.dry_run of the run in progress
    runs         \* number of runs started

vars == <<ledger, portfolio, config, today, pc, trade_log, histories, signals, executed,
          dry_run, runs>>

----------------------------------------------------------------------------
(* Bounds of the model.                                                    *)

\* Total number of Signals computed in one behaviour (runs * funds).
MaxSignals == 4
\* The day before the first run may happen.
StartDay == 400

----------------------------------------------------------------------------
(* Strategy configuration (config["strategy"]).                            *)

ma_days == 250
buy_cooldown_days == 30
sell_cooldown_days == 30
cooldown_override_extra_pct == 5
extra_drop_pct == 8
\* len(history) < 60
MinHistory == 60

thresholds ==
    [mid  |-> [buy_pct |-> -15, sell_pct |-> 15],
     high |-> [buy_pct |-> -20, sell_pct |-> 20]]

----------------------------------------------------------------------------
(* Python values.                                                          *)

None == -1
EmptyDate == 0
NoneRat == [num |-> 0, den |-> 0]

Falsy(d) == d = None \/ d = EmptyDate

Max(a, b) == IF a >= b THEN a ELSE b
Min(a, b) == IF a <= b THEN a ELSE b
Abs(a) == IF a < 0 THEN -a ELSE a

RECURSIVE Gcd(_, _)
Gcd(a, b) == IF b = 0 THEN a ELSE Gcd(b, a % b)

\* The fraction n/d (d # 0) in lowest terms with a positive denominator.
Rat(n, d) ==
    LET g == Gcd(Abs(n), Abs(d))
        s == IF d < 0 THEN -1 ELSE 1
    IN  [num |-> s * (n \div g), den |-> s * (d \div g)]

IsNoneRat(r) == r.den = 0
\* r <= k, r >= k, r > k for a fraction r and an integer k
RatLE(r, k) == r.num <= k * r.den
RatGE(r, k) == r.num >= k * r.den
RatGT(r, k) == r.num > k * r.den

----------------------------------------------------------------------------
(* Ledger queries.                                                         *)

RECURSIVE SumDeltas(_, _, _, _)
\* sum of shares_delta over the rows 1..n of log of fund_code with action in actions
SumDeltas(fund_code, actions, log, n) ==
    IF n = 0 THEN 0
    ELSE SumDeltas(fund_code, actions, log, n - 1)
         + (IF log[n].fund_code = fund_code /\ log[n].action \in actions
            THEN log[n].shares_delta ELSE 0)

AllActions == {"buy", "sell", "extra_buy", "extra_sell"}

get_current_shares(fund_code, log) ==
    Max(SumDeltas(fund_code, AllActions, log, Len(log)), 0)

get_extra_shares(fund_code, log) ==
    Max(SumDeltas(fund_code, {"extra_buy", "extra_sell"}, log, Len(log)), 0)

\* mutant: the last row with the action is taken, whichever fund it belongs to
LastIndex_any_fund(fund_code, actions, log) ==
    LET S == {i \in 1..Len(log) : log[i].action \in actions}
    IN  IF S = {} THEN 0 ELSE CHOOSE i \in S : \A j \in S : j <= i

\* index of the last row of log of fund_code with action in actions, 0 if none
LastIndex(fund_code, actions, log) ==
    LET S == {i \in 1..Len(log) :
                 log[i].fund_code = fund_code /\ log[i].action \in actions}
    IN  IF S = {} THEN 0 ELSE CHOOSE i \in S : \A j \in S : j <= i

get_last_trade_date(fund_code, action, log) ==
    LET i == LastIndex(fund_code, {action}, log)
    IN  IF i = 0 THEN None ELSE log[i].date

\* mutant: the extra allowance counts as used only while the extra share is held
has_used_extra_while_held(fund_code, log) == get_extra_shares(fund_code, log) > 0

has_used_extra(fund_code, log) ==
    \E i \in 1..Len(log) : log[i].fund_code = fund_code /\ log[i].action = "extra_buy"

get_last_buy_nav(fund_code, log) ==
    LET i == LastIndex(fund_code, {"buy", "extra_buy"}, log)
    IN  IF i = 0 THEN None ELSE log[i].nav

get_last_action_date(fund_code, log) ==
    LET i == LastIndex(fund_code, AllActions, log)
    IN  IF i = 0 THEN None ELSE log[i].date

RECURSIVE AvgCostReplay_regular_only(_, _, _)
\* mutant: only the buy and sell rows are replayed, the extra share is left out
AvgCostReplay_regular_only(fund_code, log, n) ==
    IF n = 0 THEN [cost |-> Rat(0, 1), shares |-> 0]
    ELSE LET acc   == AvgCostReplay_regular_only(fund_code, log, n - 1)
             row   == log[n]
             delta == row.shares_delta
             sold  == Min(Abs(delta), acc.shares)
         IN  IF row.fund_code # fund_code \/ row.action \notin {"buy", "sell"} THEN acc
             ELSE IF delta > 0 THEN
                 [cost   |-> Rat(acc.cost.num + delta * row.nav * acc.cost.den, acc.cost.den),
                  shares |-> acc.shares + delta]
             ELSE IF delta < 0 /\ acc.shares > 0 THEN
                 [cost   |-> Rat(acc.cost.num * (acc.shares - sold), acc.cost.den * acc.shares),
                  shares |-> acc.shares - sold]
             ELSE acc

RECURSIVE AvgCostReplay_sold_at_row_nav(_, _, _)
\* mutant: a disposal takes its shares out of the cost at the nav of its own row
AvgCostReplay_sold_at_row_nav(fund_code, log, n) ==
    IF n = 0 THEN [cost |-> Rat(0, 1), shares |-> 0]
    ELSE LET acc   == AvgCostReplay_sold_at_row_nav(fund_code, log, n - 1)
             row   == log[n]
             delta == row.shares_delta
             sold  == Min(Abs(delta), acc.shares)
         IN  IF row.fund_code # fund_code THEN acc
             ELSE IF delta > 0 THEN
                 [cost   |-> Rat(acc.cost.num + delta * row.nav * acc.cost.den, acc.cost.den),
                  shares |-> acc.shares + delta]
             ELSE IF delta < 0 /\ acc.shares > 0 THEN
                 [cost   |-> Rat(acc.cost.num - sold * row.nav * acc.cost.den, acc.cost.den),
                  shares |-> acc.shares - sold]
             ELSE acc

RECURSIVE AvgCostReplay(_, _, _)
\* get_avg_cost's loop over rows 1..n: [cost |-> total_cost, shares |-> total_shares]
AvgCostReplay(fund_code, log, n) ==
    IF n = 0 THEN [cost |-> Rat(0, 1), shares |-> 0]
    ELSE LET acc   == AvgCostReplay(fund_code, log, n - 1)
             row   == log[n]
             delta == row.shares_delta
             sold  == Min(Abs(delta), acc.shares)
         IN  IF row.fund_code # fund_code THEN acc
             ELSE IF delta > 0 THEN
                 [cost   |-> Rat(acc.cost.num + delta * row.nav * acc.cost.den, acc.cost.den),
                  shares |-> acc.shares + delta]
             ELSE IF delta < 0 /\ acc.shares > 0 THEN
                 \* total_cost -= sold * (total_cost / total_shares)
                 [cost   |-> Rat(acc.cost.num * (acc.shares - sold), acc.cost.den * acc.shares),
                  shares |-> acc.shares - sold]
             ELSE acc

get_avg_cost(fund_code, log) ==
    LET acc == AvgCostReplay(fund_code, log, Len(log))
    IN  IF acc.shares > 0 THEN Rat(acc.cost.num, acc.cost.den * acc.shares) ELSE NoneRat

----------------------------------------------------------------------------
(* Price provider.                                                         *)

\* fetch_current_nav: the latest point of the fetched records, or None
fetch_current_nav(records) ==
    IF Len(records) > 0
    THEN [date |-> records[Len(records)].date, nav |-> records[Len(records)].nav]
    ELSE [date |-> None, nav |-> None]

----------------------------------------------------------------------------
(* Signal generation.                                                      *)

Reason(kind, n) == [kind |-> kind, n |-> n]

\* Signal.__init__
Signal(fund_cfg) ==
    [fund_code     |-> fund_cfg.code,
     fund_name     |-> fund_cfg.name,
     category      |-> fund_cfg.category,
     current_nav   |-> 0,
     current_date  |-> EmptyDate,
     ma250         |-> NoneRat,
     deviation_pct |-> NoneRat,
     held_shares   |-> 0,
     extra_shares  |-> 0,
     max_shares    |-> fund_cfg.max_shares,
     avg_cost      |-> NoneRat,
     pnl_pct       |-> NoneRat,
     signal_type   |-> "",
     can_execute   |-> FALSE,
     reason        |-> Reason("", 0),
     block_reasons |-> <<>>]

\* mutant: a full quota still counts as room
LowHasRoom_inclusive(held, max_shares) == held <= max_shares

\* held < max_shares
LowHasRoom(held, max_shares) == held < max_shares

\* the low-volatility branch: quota fill without timing
LowSignal(fund_cfg, log, records) ==
    LET sig    == Signal(fund_cfg)
        held   == get_current_shares(fund_cfg.code, log)
        result == fetch_current_nav(records)
        s1     == IF LowHasRoom(held, fund_cfg.max_shares)
                  THEN [sig EXCEPT !.held_shares = held,
                                   !.signal_type = "hold_buy",
                                   !.can_execute = TRUE,
                                   !.reason = Reason("low_direct_buy", held)]
                  ELSE [sig EXCEPT !.held_shares = held,
                                   !.signal_type = "none",
                                   !.reason = Reason("low_quota_full", held)]
    IN  IF result.date # None
        THEN [s1 EXCEPT !.current_date = result.date, !.current_nav = result.nav]
        ELSE s1

\* the signal for a history shorter than MinHistory points
ShortHistorySignal(fund_cfg, history) ==
    [Signal(fund_cfg) EXCEPT !.signal_type = "none",
                             !.reason = Reason("insufficient_history", Len(history))]

RECURSIVE SumNav(_, _, _)
\* sum of history[i].nav for i in from..to
SumNav(history, from, to) ==
    IF from > to THEN 0 ELSE history[to].nav + SumNav(history, from, to - 1)

\* window = min(len(nav_values), ma_days)
Window(history) == Min(Len(history), ma_days)

\* sum(nav_values[-window:]) / window
MovingAverage(history) ==
    Rat(SumNav(history, Len(history) - Window(history) + 1, Len(history)), Window(history))

\* (current_nav - ma250) / ma250 * 100
Deviation(current_nav, ma) ==
    Rat((current_nav * ma.den - ma.num) * 100, ma.num)

\* (current_nav - avg_cost) / avg_cost * 100, when avg_cost is set and positive
PnlPct(current_nav, avg_cost) ==
    IF ~IsNoneRat(avg_cost) /\ avg_cost.num > 0
    THEN Rat((current_nav * avg_cost.den - avg_cost.num) * 100, avg_cost.num)
    ELSE NoneRat

\* thresholds.get(vol, thresholds["mid"])
ThresholdsOf(vol) ==
    IF vol \in DOMAIN thresholds THEN thresholds[vol] ELSE thresholds["mid"]

\* max(filter(None, [a, b]), default=None)
MaxTruthy(a, b) ==
    IF Falsy(a) /\ Falsy(b) THEN None
    ELSE IF Falsy(a) THEN b
    ELSE IF Falsy(b) THEN a
    ELSE Max(a, b)

\* (today - datetime.strptime(date, "%Y-%m-%d")).days
DaysSince(now, date) == now - date

\* mutant: the sell cooldown is anchored on the last sell alone
RecentSell_sell_only(code, log) == MaxTruthy(get_last_trade_date(code, "sell", log), None)

\* the more recent of the last sell date and the last extra_sell date
RecentSell(code, log) ==
    LET last_sell == get_last_trade_date(code, "sell", log)
        last_extra_sell_date == get_last_trade_date(code, "extra_sell", log)
    IN  MaxTruthy(last_sell, last_extra_sell_date)

\* mutant: the cooldown is checked before the position
SellBlocks_cooldown_first(code, log, now, held_shares, extra_shares) ==
    LET total_held  == held_shares + extra_shares
        recent_sell == RecentSell(code, log)
        days_since  == DaysSince(now, recent_sell)
    IN  (IF ~Falsy(recent_sell) /\ days_since < sell_cooldown_days
         THEN <<Reason("sell_cooldown", days_since)>> ELSE <<>>)
        \o (IF total_held <= 0 THEN <<Reason("no_position", 0)>> ELSE <<>>)

\* the sell branch's blocking checks
SellBlocks(code, log, now, held_shares, extra_shares) ==
    LET total_held  == held_shares + extra_shares
        recent_sell == RecentSell(code, log)
        days_since  == DaysSince(now, recent_sell)
    IN  (IF total_held <= 0 THEN <<Reason("no_position", 0)>> ELSE <<>>)
        \o (IF ~Falsy(recent_sell) /\ days_since < sell_cooldown_days
            THEN <<Reason("sell_cooldown", days_since)>> ELSE <<>>)

\* mutant: the regular shares are sold before the extra share
SellType_regular_first(held_shares, extra_shares) ==
    IF held_shares > 0 THEN "sell"
    ELSE IF extra_shares > 0 THEN "extra_sell"
    ELSE "sell"

\* mutant: a sell trigger always sells a regular share
SellType_always_regular(held_shares, extra_shares) == "sell"

\* the type of a sell-triggered signal: the extra share goes first
SellType(held_shares, extra_shares) ==
    IF extra_shares > 0 THEN "extra_sell"
    ELSE IF held_shares > 0 THEN "sell"
    ELSE "sell"

\* the sell branch: deviation >= sell_pct
SellSignal(sig, log, now, sell_th) ==
    LET blocks == SellBlocks(sig.fund_code, log, now, sig.held_shares, sig.extra_shares)
    IN  [sig EXCEPT !.block_reasons = blocks,
                    !.can_execute = (Len(blocks) = 0),
                    !.signal_type = SellType(sig.held_shares, sig.extra_shares),
                    !.reason = IF sig.extra_shares > 0
                               THEN Reason("sell_extra_first", sell_th)
                               ELSE Reason("sell", sell_th)]

\* (current_nav - last_buy_nav) / last_buy_nav * 100
DropFromLast(current_nav, last_buy_nav) ==
    Rat((current_nav - last_buy_nav) * 100, last_buy_nav)

\* mutant: the price must have fallen by extra_drop_pct percent since the last buy
DropNotReached_by_fall(drop_from_last) == RatGT(drop_from_last, -extra_drop_pct)

\* drop_from_last > extra_drop_pct: the further drop is not deep enough
DropNotReached(drop_from_last) == RatGT(drop_from_last, extra_drop_pct)

\* mutant: the quota counts as full one share late
QuotaFull_late(held_shares, max_shares) == held_shares > max_shares

\* quota_full = held_shares >= max_shares
QuotaFull(held_shares, max_shares) == held_shares >= max_shares

\* mutant: a fund with no buy on record is not held back by the missing precedent
NoLastBuy_unconstrained(last_buy_nav) == FALSE

\* last_buy_nav is None
NoLastBuy(last_buy_nav) == last_buy_nav = None

\* the quota part of the buy branch: the type, the reason and the blocks it sets
BuyQuota(sig, log) ==
    LET code         == sig.fund_code
        quota_full   == QuotaFull(sig.held_shares, sig.max_shares)
        used_extra   == has_used_extra(code, log)
        last_buy_nav == get_last_buy_nav(code, log)
    IN  IF ~quota_full THEN
            [signal_type |-> "buy", reason |-> Reason("buy", 0), blocks |-> <<>>]
        ELSE IF used_extra THEN
            [signal_type |-> sig.signal_type, reason |-> sig.reason,
             blocks |-> <<Reason("quota_full_extra_used", sig.held_shares)>>]
        ELSE IF NoLastBuy(last_buy_nav) THEN
            [signal_type |-> sig.signal_type, reason |-> sig.reason,
             blocks |-> <<Reason("quota_full_no_last_buy", sig.held_shares)>>]
        ELSE IF DropNotReached(DropFromLast(sig.current_nav, last_buy_nav)) THEN
            [signal_type |-> sig.signal_type, reason |-> sig.reason,
             blocks |-> <<Reason("quota_full_drop_not_reached", sig.held_shares)>>]
        ELSE
            [signal_type |-> "extra_buy", reason |-> Reason("extra_buy", last_buy_nav),
             blocks |-> <<>>]

\* mutant: the boundary deviation does not break the cooldown
CooldownOverride_strict(deviation_pct, buy_th) ==
    ~RatGE(deviation_pct, buy_th - cooldown_override_extra_pct)

\* deviation_pct <= buy_th - override_extra: the cooldown may be broken
CooldownOverride(deviation_pct, buy_th) ==
    RatLE(deviation_pct, buy_th - cooldown_override_extra_pct)

\* the buy cooldown check, made for the types buy and extra_buy
BuyCooldownBlocks(code, log, now, signal_type, deviation_pct, buy_th) ==
    LET last_buy   == get_last_trade_date(code, "buy", log)
        last_extra_buy_date == get_last_trade_date(code, "extra_buy", log)
        recent_buy == MaxTruthy(last_buy, last_extra_buy_date)
        days_since == DaysSince(now, recent_buy)
    IN  IF /\ signal_type \in {"buy", "extra_buy"}
           /\ ~Falsy(recent_buy)
           /\ days_since < buy_cooldown_days
           /\ ~CooldownOverride(deviation_pct, buy_th)
        THEN <<Reason("buy_cooldown", days_since)>>
        ELSE <<>>

\* mutant: a buy or extra_buy executes whatever blocks there are
BuyCanExecute_type_only(blocks, signal_type) == signal_type \in {"buy", "extra_buy"}

\* len(blocks) == 0 and sig.signal_type in ("buy", "extra_buy")
BuyCanExecute(blocks, signal_type) ==
    Len(blocks) = 0 /\ signal_type \in {"buy", "extra_buy"}

\* the buy branch: deviation <= buy_pct
BuySignal(sig, log, now, buy_th) ==
    LET q      == BuyQuota(sig, log)
        blocks == q.blocks \o BuyCooldownBlocks(sig.fund_code, log, now, q.signal_type,
                                                sig.deviation_pct, buy_th)
    IN  [sig EXCEPT !.signal_type = q.signal_type,
                    !.reason = q.reason,
                    !.block_reasons = blocks,
                    !.can_execute = BuyCanExecute(blocks, q.signal_type)]

\* the moving-average branch, for a history of at least MinHistory points
TimedSignal(fund_cfg, log, now, history) ==
    LET code   == fund_cfg.code
        cur    == history[Len(history)]
        ma     == MovingAverage(history)
        dev    == Deviation(cur.nav, ma)
        avg    == get_avg_cost(code, log)
        sig    == [Signal(fund_cfg) EXCEPT
                      !.current_nav   = cur.nav,
                      !.current_date  = cur.date,
                      !.ma250         = ma,
                      !.deviation_pct = dev,
                      !.held_shares   = get_current_shares(code, log),
                      !.extra_shares  = get_extra_shares(code, log),
                      !.avg_cost      = avg,
                      !.pnl_pct       = PnlPct(cur.nav, avg)]
        th     == ThresholdsOf(fund_cfg.volatility)
    IN  IF RatGE(dev, th.sell_pct) THEN SellSignal(sig, log, now, th.sell_pct)
        ELSE IF RatLE(dev, th.buy_pct) THEN BuySignal(sig, log, now, th.buy_pct)
        ELSE [sig EXCEPT !.signal_type = "none", !.reason = Reason("not_triggered", 0)]

\* mutant: only an empty series counts as insufficient
IsShort_empty_only(history) == Len(history) = 0

\* len(history) < 60
IsShort(history) == Len(history) < MinHistory

\* the body of compute_signals' loop for one fund; history is what the provider returns
FundSignal(fund_cfg, log, now, history) ==
    IF fund_cfg.volatility = "low" THEN LowSignal(fund_cfg, log, history)
    ELSE IF IsShort(history) THEN ShortHistorySignal(fund_cfg, history)
    ELSE TimedSignal(fund_cfg, log, now, history)

\* whether the loop body raises for this fund: a zero moving average (line 273) or a
\* zero last buy nav (line 340) is a ZeroDivisionError
FundRaises(fund_cfg, log, now, history) ==
    /\ fund_cfg.volatility # "low"
    /\ ~IsShort(history)
    /\ LET ma  == MovingAverage(history)
           cur == history[Len(history)].nav
           th  == ThresholdsOf(fund_cfg.volatility)
       IN  \/ ma.num = 0
           \/ /\ ~RatGE(Deviation(cur, ma), th.sell_pct)
              /\ RatLE(Deviation(cur, ma), th.buy_pct)
              /\ get_current_shares(fund_cfg.code, log) >= fund_cfg.max_shares
              /\ ~has_used_extra(fund_cfg.code, log)
              /\ get_last_buy_nav(fund_cfg.code, log) = 0

\* whether compute_signals ends with an exception
ComputeRaises(funds, log, now, fetched) ==
    \E i \in 1..Len(funds) : FundRaises(funds[i], log, now, fetched[i])

\* compute_signals: one Signal per configured fund, in configuration order
compute_signals(funds, log, now, fetched) ==
    [i \in 1..Len(funds) |-> FundSignal(funds[i], log, now, fetched[i])]

----------------------------------------------------------------------------
(* Trade execution.                                                        *)

\* the row csv.writer writes: date, fund_code, action, nav, shares_delta, note
TradeRow(date, fund_code, action, nav, shares_delta, note) ==
    [date |-> date, fund_code |-> fund_code, action |-> action, nav |-> nav,
     shares_delta |-> shares_delta, note |-> note]

\* the signal types execute_signals' if/elif chain handles
ExecutableTypes == {"buy", "hold_buy", "extra_buy", "sell", "extra_sell"}

\* mutant: can_execute is not looked at
IsExecuted_unchecked(sig) == sig.signal_type \in ExecutableTypes

\* mutant: the hold_buy of a low-tier fund is not among the types that are executed
IsExecuted_no_hold_buy(sig) ==
    sig.can_execute /\ sig.signal_type \in ExecutableTypes \ {"hold_buy"}

\* whether execute_signals' loop body appends sig to executed
IsExecuted(sig) == sig.can_execute /\ sig.signal_type \in ExecutableTypes

\* the action written for a signal type
RowAction(signal_type) == IF signal_type = "hold_buy" THEN "buy" ELSE signal_type

\* the shares_delta written for a signal type
RowDelta(signal_type) == IF signal_type \in {"buy", "hold_buy", "extra_buy"} THEN 1 ELSE -1

\* the call of append_trade_log made for an executed signal
SignalRow(sig) ==
    TradeRow(sig.current_date, sig.fund_code, RowAction(sig.signal_type),
             sig.current_nav, RowDelta(sig.signal_type), sig.reason)

\* mutant: the row is written in a dry run too
AppendedRows_dry_too(sig, dry) == IF IsExecuted(sig) THEN <<SignalRow(sig)>> ELSE <<>>

\* the rows append_trade_log is called with for one signal
AppendedRows(sig, dry) == IF IsExecuted(sig) /\ ~dry THEN <<SignalRow(sig)>> ELSE <<>>

RECURSIVE ExecLoop(_, _, _)
\* execute_signals' loop over sigs[1..n]: the executed list and the rows appended
ExecLoop(sigs, dry, n) ==
    IF n = 0 THEN [executed |-> <<>>, rows |-> <<>>]
    ELSE LET acc == ExecLoop(sigs, dry, n - 1)
         IN  [executed |-> IF IsExecuted(sigs[n]) THEN Append(acc.executed, sigs[n])
                           ELSE acc.executed,
              rows     |-> acc.rows \o AppendedRows(sigs[n], dry)]

execute_signals(sigs, dry) == ExecLoop(sigs, dry, Len(sigs))

----------------------------------------------------------------------------
(* Portfolio snapshot.                                                     *)

\* f"{avg_cost:.4f}" if avg_cost else "": the cost in 1/10000 units, rounded; None is ""
FormatAvgCost(avg_cost) ==
    IF IsNoneRat(avg_cost) \/ avg_cost.num = 0 THEN None
    ELSE (avg_cost.num * 20 + avg_cost.den) \div (2 * avg_cost.den)

\* the row update_portfolio writes for one fund
PortfolioRow(fund_cfg, log) ==
    LET code     == fund_cfg.code
        regular  == get_current_shares(code, log)
        extra    == get_extra_shares(code, log)
        i        == LastIndex(code, {"buy", "extra_buy"}, log)
        last_buy == IF i = 0 THEN None ELSE log[i].date
    IN  [fund_code      |-> code,
         fund_name      |-> fund_cfg.name,
         category       |-> fund_cfg.category,
         regular_shares |-> regular,
         max_shares     |-> fund_cfg.max_shares,
         extra_shares   |-> extra,
         total_shares   |-> regular + extra,
         avg_cost       |-> FormatAvgCost(get_avg_cost(code, log)),
         last_buy_date  |-> IF Falsy(last_buy) THEN EmptyDate ELSE last_buy]

update_portfolio(funds, log) ==
    [i \in 1..Len(funds) |-> PortfolioRow(funds[i], log)]

----------------------------------------------------------------------------
(* Inputs: the configured funds and what the price provider returns.       *)

FundBond == [code |-> "110017", name |-> "bond", category |-> "bond",
             volatility |-> "low", max_shares |-> 2]
FundMid1 == [code |-> "050025", name |-> "sp500", category |-> "equity",
             volatility |-> "mid", max_shares |-> 1]
FundMid2 == [code |-> "050025", name |-> "sp500", category |-> "equity",
             volatility |-> "mid", max_shares |-> 2]
FundHigh == [code |-> "160416", name |-> "oil", category |-> "commodity",
             volatility |-> "high", max_shares |-> 1]
FundMid0 == [code |-> "000311", name |-> "csi300", category |-> "equity",
             volatility |-> "mid", max_shares |-> 0]

\* the configurations a behaviour may run under
FundConfigs == { <<FundMid1>>, <<FundMid2>>, <<FundBond>>, <<FundBond, FundHigh>>,
                 <<FundMid0>> }

\* days between two runs
DaySteps == {10, 30}

\* a series of n points, one per day, ending on last_date: prev, ..., prev, cur
MkHistory(n, last_date, prev, cur) ==
    [i \in 1..n |-> [date |-> last_date - (n - i),
                     nav  |-> IF i = n THEN cur ELSE prev]]

\* <<lag, prev, cur>> of the 60-point series the provider may return: the latest point
\* is lag days older than the run day, and the deviation of cur from the average is
\* +21, +21, 0, -20, -21 (average 5900) and -16 (average 11800)
PriceCases == { <<0, 5879, 7139>>, <<1, 5879, 7139>>, <<0, 5900, 5900>>,
                <<0, 5920, 4720>>, <<0, 5921, 4661>>, <<0, 11832, 9912>> }

\* the shape of a series: n points ending on last_date, prev, ..., prev, cur
Shape(n, last_date, prev, cur) ==
    [n |-> n, last_date |-> last_date, prev |-> prev, cur |-> cur]

\* the series of a shape
Series(h) == MkHistory(h.n, h.last_date, h.prev, h.cur)

\* the empty response: the provider failed or has no points
NoPoints == Shape(0, 0, 0, 0)

\* what fetch_nav_history may return for a timed fund on a run of day now
TimedHistories(now) ==
    { Shape(MinHistory, now - c[1], c[2], c[3]) : c \in PriceCases }
    \cup { Shape(40, now, 5900, 5900), NoPoints }

\* days by which the latest point of a low fund's series is older than the run day
Lags == {0, 1}

\* what fetch_nav_history(code, days=3) may return for a low fund
LowHistories(now) ==
    { Shape(3, now - l, 1000, 1000) : l \in Lags } \cup { NoPoints }

HistoriesFor(fund_cfg, now) ==
    IF fund_cfg.volatility = "low" THEN LowHistories(now) ELSE TimedHistories(now)

\* one history per configured fund
HistoryChoices(funds, now) ==
    { h \in [1..Len(funds) -> UNION {HistoriesFor(funds[i], now) : i \in 1..Len(funds)}] :
        \A i \in 1..Len(funds) : h[i] \in HistoriesFor(funds[i], now) }

----------------------------------------------------------------------------
(* The program: main() run again and again on the same files.              *)

Init ==
    /\ config \in FundConfigs
    /\ ledger = <<>>
    /\ portfolio = <<>>
    /\ today = StartDay
    /\ pc = "idle"
    /\ trade_log = <<>>
    /\ histories = <<>>
    /\ signals = <<>>
    /\ executed = <<>>
    /\ dry_run = FALSE
    /\ runs = 0

\* main, step 1/3: parse the arguments, load the ledger, compute the signals
ComputeSignals ==
    /\ pc = "idle"
    /\ (runs + 1) * Len(config) <= MaxSignals
    /\ \E step \in DaySteps, dry \in BOOLEAN :
         \E fetched \in HistoryChoices(config, today + step) :
            /\ today' = today + step
            /\ dry_run' = dry
            /\ trade_log' = ledger
            /\ histories' = fetched
            /\ LET series == [i \in 1..Len(config) |-> Series(fetched[i])]
               IN  IF ComputeRaises(config, ledger, today + step, series)
                   THEN signals' = <<>> /\ pc' = "error"
                   ELSE /\ signals' = compute_signals(config, ledger, today + step, series)
                        /\ pc' = "computed"
    /\ executed' = <<>>
    /\ runs' = runs + 1
    /\ UNCHANGED <<ledger, portfolio, config>>

\* main, step 2/3: execute_signals(signals, dry_run=args.dry_run)
ExecuteSignals ==
    /\ pc = "computed"
    /\ LET r == execute_signals(signals, dry_run)
       IN  /\ executed' = r.executed
           /\ ledger' = ledger \o r.rows
    /\ pc' = "executed"
    /\ UNCHANGED <<portfolio, config, today, trade_log, histories, signals, dry_run, runs>>

\* main, after step 2: update_portfolio(config), then the report and the exit
UpdatePortfolio ==
    /\ pc = "executed"
    /\ portfolio' = update_portfolio(config, ledger)
    /\ trade_log' = <<>>
    /\ histories' = <<>>
    /\ signals' = <<>>
    /\ executed' = <<>>
    /\ dry_run' = FALSE
    /\ pc' = "idle"
    /\ UNCHANGED <<ledger, config, today, runs>>

Next == ComputeSignals \/ ExecuteSignals \/ UpdatePortfolio

Spec == Init /\ [][Next]_vars

----------------------------------------------------------------------------
(* get_avg_cost on ledgers of any order of acquisitions and disposals: one *)
(* run of main() on a trade_log.csv that earlier trading has filled.       *)

MaxReplayLen == 3

\* rows as append_trade_log writes them: one share a row, at 10.000 or 12.000
ReplayRows ==
    { TradeRow(StartDay - 100, FundMid2.code, "buy", 10000, 1, Reason("buy", 0)),
      TradeRow(StartDay - 100, FundMid2.code, "buy", 12000, 1, Reason("buy", 0)),
      TradeRow(StartDay - 100, FundMid2.code, "extra_buy", 10000, 1, Reason("extra_buy", 0)),
      TradeRow(StartDay - 100, FundMid2.code, "sell", 12000, -1, Reason("sell", 0)),
      TradeRow(StartDay - 100, FundMid2.code, "extra_sell", 12000, -1, Reason("extra_sell", 0)),
      TradeRow(StartDay - 100, FundBond.code, "buy", 10000, 1, Reason("low_direct_buy", 0)) }

\* no row disposes of a share the fund does not hold
NeverOversold(log) ==
    \A n \in 1..Len(log) : SumDeltas(log[n].fund_code, AllActions, log, n) >= 0

ReplayLedgers ==
    { log \in UNION { [1..k -> ReplayRows] : k \in 0..MaxReplayLen } : NeverOversold(log) }

InitReplay ==
    /\ config = <<FundMid2>>
    /\ ledger \in ReplayLedgers
    /\ portfolio = <<>>
    /\ today = StartDay
    /\ pc = "idle"
    /\ trade_log = <<>>
    /\ histories = <<>>
    /\ signals = <<>>
    /\ executed = <<>>
    /\ dry_run = FALSE
    /\ runs = MaxSignals - 1

SpecReplay == InitReplay /\ [][Next]_vars

----------------------------------------------------------------------------
(* What the claims speak of, stated from the ledger's rows alone.          *)

\* the rows of log that belong to fund_code with an action in actions
RowsOf(fund_code, actions, log) ==
    {i \in 1..Len(log) : log[i].fund_code = fund_code /\ log[i].action \in actions}

RECURSIVE SumOver(_, _)
\* sum of shares_delta over the rows of log whose index is in S
SumOver(S, log) ==
    IF S = {} THEN 0
    ELSE LET i == CHOOSE j \in S : TRUE
         IN  log[i].shares_delta + SumOver(S \ {i}, log)

RegularSum(fund_code, log) == SumOver(RowsOf(fund_code, {"buy", "sell"}, log), log)
ExtraSum(fund_code, log) == SumOver(RowsOf(fund_code, {"extra_buy", "extra_sell"}, log), log)
RegularShares(fund_code, log) == Max(RegularSum(fund_code, log), 0)
ExtraShares(fund_code, log) == Max(ExtraSum(fund_code, log), 0)

BuyActions == {"buy", "extra_buy"}
SellActions == {"sell", "extra_sell"}

\* the latest date among the rows S of log (S not empty)
LatestDate(S, log) ==
    LET i == CHOOSE j \in S : \A k \in S : log[k].date <= log[j].date
    IN  log[i].date

HasBlock(sig, kind) ==
    \E k \in 1..Len(sig.block_reasons) : sig.block_reasons[k].kind = kind

FundIndexes == 1..Len(config)
\* a signal for which the moving average was computed
IsTimed(sig) == ~IsNoneRat(sig.deviation_pct)

----------------------------------------------------------------------------
(* C1 *)

\* C1: each fund has at most one extra_buy row in the ledger, and a run gives no
\* signal of type extra_buy to a fund whose loaded ledger holds an extra_buy row.
C1_ExtraBuyAtMostOnce ==
    \A f \in FundIndexes :
        /\ Cardinality(RowsOf(config[f].code, {"extra_buy"}, ledger)) <= 1
        /\ (pc \in {"computed", "executed"}
            /\ RowsOf(config[f].code, {"extra_buy"}, trade_log) # {})
           => signals[f].signal_type # "extra_buy"

\* a buy-triggered run for a fund whose extra share was bought and sold again: the
\* quota is full, no extra share is held, and the signal is blocked as "extra used"
C1_Witness ==
    /\ pc = "computed"
    /\ \E f \in FundIndexes :
        /\ RowsOf(config[f].code, {"extra_buy"}, trade_log) # {}
        /\ RowsOf(config[f].code, {"extra_sell"}, trade_log) # {}
        /\ ExtraShares(config[f].code, trade_log) = 0
        /\ HasBlock(signals[f], "quota_full_extra_used")

----------------------------------------------------------------------------
(* C2 *)

\* C2: for every fund the sum of shares_delta over its buy and sell rows is at
\* least 0 and at most max_shares.
C2_RegularWithinQuota ==
    \A f \in FundIndexes :
        /\ RegularSum(config[f].code, ledger) >= 0
        /\ RegularSum(config[f].code, ledger) <= config[f].max_shares

\* a fund with a quota of 2 that holds 2 regular shares and an extra share, on a
\* run that triggers a buy
C2_Witness ==
    /\ pc = "computed"
    /\ \E f \in FundIndexes :
        /\ config[f].max_shares = 2
        /\ RegularSum(config[f].code, ledger) = 2
        /\ ExtraSum(config[f].code, ledger) = 1
        /\ IsTimed(signals[f])
        /\ RatLE(signals[f].deviation_pct, ThresholdsOf(config[f].volatility).buy_pct)

----------------------------------------------------------------------------
(* C3 *)

\* C3: the held shares a Signal reports are the sum of shares_delta over the fund's
\* buy and sell rows, floored at 0; extra_buy and extra_sell rows do not change it.
C3_HeldSharesRegularOnly ==
    pc = "computed" =>
        \A f \in FundIndexes :
            (config[f].volatility = "low" \/ IsTimed(signals[f]))
            => signals[f].held_shares = RegularShares(config[f].code, trade_log)

----------------------------------------------------------------------------
(* C4 *)

\* C4: a low fund's signal is hold_buy with can_execute when its shares are below
\* max_shares, and none without can_execute otherwise, whatever the provider returned.
C4_LowTierVerdict ==
    pc = "computed" =>
        \A f \in FundIndexes :
            config[f].volatility = "low" =>
                IF RegularShares(config[f].code, trade_log) < config[f].max_shares
                THEN signals[f].signal_type = "hold_buy" /\ signals[f].can_execute
                ELSE signals[f].signal_type = "none" /\ ~signals[f].can_execute

\* a low fund with its quota full on a run whose nav fetch returned nothing
C4_Witness ==
    /\ pc = "computed"
    /\ \E f \in FundIndexes :
        /\ config[f].volatility = "low"
        /\ RegularShares(config[f].code, trade_log) = config[f].max_shares
        /\ signals[f].current_date = EmptyDate
        /\ signals[f].signal_type = "none"

----------------------------------------------------------------------------
(* C5 *)

\* C5: a signal whose deviation is at or above sell_pct has type extra_sell when
\* the fund holds an extra share, whatever its regular shares, and sell when not.
C5_SellPrefersExtra ==
    pc = "computed" =>
        \A f \in FundIndexes :
            (/\ IsTimed(signals[f])
             /\ RatGE(signals[f].deviation_pct, ThresholdsOf(config[f].volatility).sell_pct))
            => signals[f].signal_type =
                  IF ExtraShares(config[f].code, trade_log) > 0 THEN "extra_sell" ELSE "sell"

\* regular = 2 and extra = 1 on a sell-triggered run without block: extra_sell
C5_Witness ==
    /\ pc = "computed"
    /\ \E f \in FundIndexes :
        /\ RegularSum(config[f].code, trade_log) = 2
        /\ ExtraSum(config[f].code, trade_log) = 1
        /\ signals[f].signal_type = "extra_sell"
        /\ signals[f].can_execute

----------------------------------------------------------------------------
(* C6 *)

\* the signal of fund f is of type buy or extra_buy and the fund's latest buy or
\* extra_buy row is fewer than buy_cooldown_days days before the run day
C6_InBuyCooldown(f) ==
    LET S == RowsOf(config[f].code, BuyActions, trade_log)
    IN  /\ signals[f].signal_type \in {"buy", "extra_buy"}
        /\ IsTimed(signals[f])
        /\ S # {}
        /\ today - LatestDate(S, trade_log) < buy_cooldown_days

\* C6: within the buy cooldown a cooldown block is added if and only if
\* deviation > buy_pct - cooldown_override_extra_pct (nothing at the boundary); with
\* buy_pct -15, override 5, cooldown 30 and a buy 10 days ago, -21 passes and -16 is blocked.
C6_CooldownOverride ==
    pc = "computed" =>
        \A f \in FundIndexes :
            C6_InBuyCooldown(f) =>
                LET sig == signals[f]
                    th  == ThresholdsOf(config[f].volatility).buy_pct
                               - cooldown_override_extra_pct
                    S   == RowsOf(config[f].code, BuyActions, trade_log)
                IN  /\ HasBlock(sig, "buy_cooldown") <=> RatGT(sig.deviation_pct, th)
                    /\ (/\ config[f].volatility = "mid"
                        /\ today - LatestDate(S, trade_log) = 10
                        /\ sig.deviation_pct = Rat(-21, 1))
                       => sig.block_reasons = <<>> /\ sig.can_execute
                    /\ (/\ config[f].volatility = "mid"
                        /\ today - LatestDate(S, trade_log) = 10
                        /\ sig.deviation_pct = Rat(-16, 1))
                       => HasBlock(sig, "buy_cooldown") /\ ~sig.can_execute

\* a mid fund bought 10 days ago, deviation exactly at the boundary -20: not blocked
C6_Witness ==
    /\ pc = "computed"
    /\ \E f \in FundIndexes :
        /\ C6_InBuyCooldown(f)
        /\ config[f].volatility = "mid"
        /\ today - LatestDate(RowsOf(config[f].code, BuyActions, trade_log), trade_log) = 10
        /\ signals[f].deviation_pct = Rat(-20, 1)
        /\ signals[f].can_execute

----------------------------------------------------------------------------
(* C7 *)

\* the rows the run in progress has appended to the ledger
NewRows == (Len(trade_log) + 1)..Len(ledger)

\* C7 as claimed: the dates of any two sell or extra_sell rows of a fund are at
\* least sell_cooldown_days days apart.
C7_SellDatesApart ==
    \A f \in FundIndexes :
        \A i, j \in RowsOf(config[f].code, SellActions, ledger) :
            i < j => ledger[j].date - ledger[i].date >= sell_cooldown_days

\* C7 as amended: a run appends a sell or extra_sell row for a fund only when its
\* own day is at least sell_cooldown_days days after the date of every earlier sell
\* or extra_sell row of the fund (the new row is dated by the latest price point,
\* which may be older than the run day).
C7_SellCooldownFromRunDay ==
    pc = "executed" =>
        \A f \in FundIndexes :
            \A j \in NewRows \cap RowsOf(config[f].code, SellActions, ledger) :
                \A i \in RowsOf(config[f].code, SellActions, trade_log) :
                    today - ledger[i].date >= sell_cooldown_days

\* a sell row appended exactly sell_cooldown_days days after the previous one, and
\* dated one day before the run day
C7_Witness ==
    /\ pc = "executed"
    /\ \E f \in FundIndexes :
        \E j \in NewRows \cap RowsOf(config[f].code, SellActions, ledger) :
            \E i \in RowsOf(config[f].code, SellActions, trade_log) :
                /\ today - ledger[i].date = sell_cooldown_days
                /\ ledger[j].date - ledger[i].date < sell_cooldown_days

----------------------------------------------------------------------------
(* C8 *)

\* C8: a signal has type extra_buy only when the current nav is below the last buy
\* nav by at least extra_drop_pct percent (extra_drop_pct = 8, a positive magnitude).
C8_ExtraBuyNeedsDrop ==
    pc = "computed" =>
        \A f \in FundIndexes :
            signals[f].signal_type = "extra_buy" =>
                LET S    == RowsOf(config[f].code, BuyActions, trade_log)
                    last == trade_log[CHOOSE i \in S : \A k \in S : k <= i].nav
                IN  /\ S # {}
                    /\ signals[f].current_nav < last
                    /\ (last - signals[f].current_nav) * 100 >= extra_drop_pct * last

----------------------------------------------------------------------------
(* C9 *)

\* the signals of the run with can_execute true, in order
C9_Accepted == SelectSeq(signals, LAMBDA sig : sig.can_execute)

C9_DeltaOf(signal_type) ==
    IF signal_type \in {"buy", "hold_buy", "extra_buy"} THEN {1}
    ELSE IF signal_type \in {"sell", "extra_sell"} THEN {-1}
    ELSE {}

\* C9: a non-dry run appends exactly one row for every signal with can_execute and
\* none for another, after all signals are decided; the row has shares_delta +1 for
\* buy, hold_buy and extra_buy and -1 for sell and extra_sell; the rows present
\* before the run are unchanged and in place.
C9_AppendOnePerAccepted ==
    /\ pc = "computed" => ledger = trade_log
    /\ (pc = "executed" /\ ~dry_run) =>
        /\ Len(ledger) = Len(trade_log) + Len(C9_Accepted)
        /\ SubSeq(ledger, 1, Len(trade_log)) = trade_log
        /\ \A k \in 1..Len(C9_Accepted) :
            LET row == ledger[Len(trade_log) + k]
            IN  /\ row.fund_code = C9_Accepted[k].fund_code
                /\ row.shares_delta \in C9_DeltaOf(C9_Accepted[k].signal_type)
                /\ row.nav = C9_Accepted[k].current_nav
                /\ row.date = C9_Accepted[k].current_date

\* a non-dry run on a ledger with rows, in which one signal was accepted and another
\* one blocked
C9_Witness ==
    /\ pc = "executed" /\ ~dry_run
    /\ Len(trade_log) > 0
    /\ Len(C9_Accepted) = 1
    /\ \E f \in FundIndexes : Len(signals[f].block_reasons) > 0

----------------------------------------------------------------------------
(* C10 *)

\* C10: a dry run leaves the ledger as it was loaded, and its executed subset is
\* the one a non-dry run returns for the same signals: the accepted signals.
C10_DryRunOnlySuspendsAppend ==
    /\ pc \in {"computed", "executed"} =>
        execute_signals(signals, TRUE).executed = execute_signals(signals, FALSE).executed
    /\ pc = "executed" =>
        /\ executed = C9_Accepted
        /\ dry_run => ledger = trade_log

\* a dry run on a ledger with rows that accepted a signal
C10_Witness ==
    /\ pc = "executed" /\ dry_run
    /\ Len(trade_log) > 0
    /\ Len(executed) > 0

----------------------------------------------------------------------------
(* C11 *)

\* C11: a non-low fund whose series has fewer than 60 points (0 included) gets
\* signal_type none, can_execute false, no moving average, no deviation and a reason
\* naming the number of points, and the run appends no row for it.
C11_ShortHistoryNoTrade ==
    pc \in {"computed", "executed"} =>
        \A f \in FundIndexes :
            (config[f].volatility # "low" /\ histories[f].n < 60) =>
                /\ signals[f].signal_type = "none"
                /\ ~signals[f].can_execute
                /\ IsNoneRat(signals[f].ma250)
                /\ IsNoneRat(signals[f].deviation_pct)
                /\ signals[f].reason = Reason("insufficient_history", histories[f].n)
                /\ \A j \in NewRows : ledger[j].fund_code # config[f].code

\* a non-dry run with 40 points for a fund that holds a share
C11_Witness ==
    /\ pc = "executed" /\ ~dry_run
    /\ \E f \in FundIndexes :
        /\ config[f].volatility # "low"
        /\ histories[f].n = 40
        /\ RegularShares(config[f].code, trade_log) > 0
        /\ signals[f].reason = Reason("insufficient_history", 40)

----------------------------------------------------------------------------
(* C12 *)

\* C12: every Signal compute_signals returns has a signal_type among buy, sell,
\* extra_buy, extra_sell, hold_buy and none, a buy-triggered signal blocked with the
\* quota full included.
C12_SignalTypeInSix ==
    pc \in {"computed", "executed"} =>
        \A f \in FundIndexes :
            signals[f].signal_type \in
                {"buy", "sell", "extra_buy", "extra_sell", "hold_buy", "none"}

----------------------------------------------------------------------------
(* C13 *)

\* the provider returned nothing for fund f, or too little for a moving average
DataMissing(f) ==
    \/ histories[f].n = 0
    \/ config[f].volatility # "low" /\ histories[f].n < 60

\* C13: whatever the provider returned and whatever earlier runs left in the ledger,
\* compute_signals ends without an error with one Signal per configured fund in
\* configuration order, and a fund whose data is missing or whose trade is blocked
\* has can_execute false and is none or carries a block reason.
C13_OneSignalPerFundNoneWhenMissing ==
    /\ pc # "error"
    /\ pc \in {"computed", "executed"} =>
        /\ Len(signals) = Len(config)
        /\ \A f \in FundIndexes :
            /\ signals[f].fund_code = config[f].code
            /\ (DataMissing(f) \/ signals[f].block_reasons # <<>>) =>
                /\ ~signals[f].can_execute
                /\ signals[f].signal_type = "none" \/ signals[f].block_reasons # <<>>

----------------------------------------------------------------------------
(* C14 *)

\* the deviation of fund f's signal is at or below the buy threshold of its tier
BuyTriggered(f) ==
    /\ IsTimed(signals[f])
    /\ RatLE(signals[f].deviation_pct, ThresholdsOf(config[f].volatility).buy_pct)

NoBuyOnRecord(f) == RowsOf(config[f].code, BuyActions, trade_log) = {}
NoSellOnRecord(f) == RowsOf(config[f].code, SellActions, trade_log) = {}

\* C14: a fund with no buy or extra_buy on record (no last buy nav, no buy cooldown
\* anchor) gets neither a block reason for the missing last buy nor a buy cooldown
\* block, and a fund with no sell or extra_sell on record gets no sell cooldown block.
C14_AbsentAnchorNoBlock ==
    pc \in {"computed", "executed"} =>
        \A f \in FundIndexes :
            /\ NoBuyOnRecord(f) =>
                /\ ~HasBlock(signals[f], "quota_full_no_last_buy")
                /\ ~HasBlock(signals[f], "buy_cooldown")
            /\ NoSellOnRecord(f) => ~HasBlock(signals[f], "sell_cooldown")

\* C14 as the code has it: an absent cooldown anchor gives no cooldown block, but a
\* buy-triggered fund whose quota is full and that has no buy on record is blocked for
\* the missing last buy nav, that block being its only one, and cannot execute.
C14_AbsentLastBuyBlocksFullQuota ==
    pc \in {"computed", "executed"} =>
        \A f \in FundIndexes :
            /\ NoBuyOnRecord(f) =>
                /\ ~HasBlock(signals[f], "buy_cooldown")
                /\ HasBlock(signals[f], "quota_full_no_last_buy") <=>
                       (BuyTriggered(f) /\ signals[f].held_shares >= config[f].max_shares)
                /\ HasBlock(signals[f], "quota_full_no_last_buy") =>
                       /\ Len(signals[f].block_reasons) = 1
                       /\ ~signals[f].can_execute
            /\ NoSellOnRecord(f) => ~HasBlock(signals[f], "sell_cooldown")

\* a buy-triggered fund with a full quota of 0 and nothing on record
C14_Witness ==
    /\ pc = "computed"
    /\ \E f \in FundIndexes :
        /\ NoBuyOnRecord(f) /\ NoSellOnRecord(f)
        /\ BuyTriggered(f)
        /\ signals[f].held_shares >= config[f].max_shares
        /\ HasBlock(signals[f], "quota_full_no_last_buy")

----------------------------------------------------------------------------
(* C15 *)

\* the first n rows of the ledger
Prefix(n) == SubSeq(ledger, 1, n)

RECURSIVE HeldAfter(_, _)
\* shares of fund_code held after the rows of log, counting acquisitions and disposals
HeldAfter(fund_code, log) ==
    IF log = <<>> THEN 0
    ELSE LET before == HeldAfter(fund_code, SubSeq(log, 1, Len(log) - 1))
             row    == log[Len(log)]
         IN  IF row.fund_code # fund_code THEN before
             ELSE Max(before + row.shares_delta, 0)

\* the fraction r times the integer k equals the fraction q plus the integer m
RatTimesEqPlus(r, k, q, m) == r.num * k * q.den = (q.num + m * q.den) * r.den

\* the example of the specification: buy 1 @ 10, buy 1 @ 12, then possibly a sell of 1
TenThenTwelve(log) ==
    /\ Len(log) >= 2
    /\ log[1].shares_delta = 1 /\ log[1].nav = 10000
    /\ log[2].shares_delta = 1 /\ log[2].nav = 12000
    /\ \A i \in 1..Len(log) : log[i].fund_code = FundMid2.code
    /\ Len(log) = 3 => log[3].shares_delta = -1

\* C15: get_avg_cost replays the fund's rows in ledger order: an acquisition of k
\* shares at nav p adds k*p to the cost and k to the shares, a disposal that leaves
\* shares held leaves the average cost unchanged, rows of other funds change nothing,
\* the result is None exactly when no shares remain, buy 1 @ 10 then buy 1 @ 12 gives
\* 11 and a following sell of 1 still 11, and the Signal carries that average cost.
C15_AverageCostReplay ==
    LET code == FundMid2.code
        avg(n) == get_avg_cost(code, Prefix(n))
        held(n) == HeldAfter(code, Prefix(n))
    IN  /\ \A n \in 1..Len(ledger) :
            LET row == ledger[n]
            IN  /\ IsNoneRat(avg(n)) <=> held(n) = 0
                /\ row.fund_code # code => avg(n) = avg(n - 1)
                /\ (row.fund_code = code /\ row.shares_delta > 0) =>
                       /\ held(n) = held(n - 1) + row.shares_delta
                       /\ RatTimesEqPlus(avg(n), held(n),
                              IF held(n - 1) = 0 THEN Rat(0, 1)
                              ELSE Rat(avg(n - 1).num * held(n - 1), avg(n - 1).den),
                              row.shares_delta * row.nav)
                /\ (row.fund_code = code /\ row.shares_delta < 0 /\ held(n) > 0) =>
                       avg(n) = avg(n - 1)
        /\ (TenThenTwelve(ledger) /\ Len(ledger) <= 3) =>
               /\ get_avg_cost(code, ledger) = Rat(11000, 1)
               /\ Len(ledger) = 3 => HeldAfter(code, ledger) = 1
        /\ (pc = "computed" /\ IsTimed(signals[1])) =>
               signals[1].avg_cost = get_avg_cost(code, trade_log)

\* the run after buy 1 @ 10, buy 1 @ 12, sell 1: one share held at an average cost of 11
C15_Witness ==
    /\ pc = "computed"
    /\ Len(trade_log) = 3 /\ TenThenTwelve(trade_log)
    /\ IsTimed(signals[1])
    /\ signals[1].held_shares = 1
    /\ signals[1].avg_cost = Rat(11000, 1)

----------------------------------------------------------------------------
(* C16 *)

\* the nav of fund f's latest buy or extra_buy row (there is one)
LastBuyNavOnRecord(f) ==
    LET S == RowsOf(config[f].code, BuyActions, trade_log)
        i == CHOOSE j \in S : \A k \in S : k <= j
    IN  trade_log[i].nav

\* fund f is buy-triggered with its quota full, its extra chance unused and a buy on record
ExtraBuyCase(f) ==
    /\ BuyTriggered(f)
    /\ signals[f].held_shares >= config[f].max_shares
    /\ RowsOf(config[f].code, {"extra_buy"}, trade_log) = {}
    /\ ~NoBuyOnRecord(f)

\* C16: for a buy-triggered signal with the quota full, the extra chance unused and a
\* last buy nav on record, signal_type is extra_buy exactly when the signed
\* (current_nav - last_buy_nav) / last_buy_nav * 100 is at most extra_drop_pct;
\* otherwise a block reason is added, no executable type is set and can_execute is false.
C16_ExtraBuyIffSignedDropAtMost ==
    pc \in {"computed", "executed"} =>
        \A f \in FundIndexes :
            ExtraBuyCase(f) =>
                LET last == LastBuyNavOnRecord(f)
                    cur  == signals[f].current_nav
                    allowed == (cur - last) * 100 <= extra_drop_pct * last
                IN  /\ last > 0
                    /\ signals[f].signal_type = "extra_buy" <=> allowed
                    /\ ~allowed =>
                        /\ HasBlock(signals[f], "quota_full_drop_not_reached")
                        /\ signals[f].signal_type \notin ExecutableTypes
                        /\ ~signals[f].can_execute

\* the price stands more than extra_drop_pct percent above the last buy: blocked
C16_Witness ==
    /\ pc = "computed"
    /\ \E f \in FundIndexes :
        /\ ExtraBuyCase(f)
        /\ (signals[f].current_nav - LastBuyNavOnRecord(f)) * 100
               > extra_drop_pct * LastBuyNavOnRecord(f)
        /\ HasBlock(signals[f], "quota_full_drop_not_reached")

----------------------------------------------------------------------------
(* C17 *)

\* C17: a Signal has can_execute true only with no block reason and a signal_type
\* among buy, sell, extra_buy, extra_sell and hold_buy, and a Signal with can_execute
\* false and no block reason has signal_type none.
C17_CanExecuteMeansUnblockedTrade ==
    pc \in {"computed", "executed"} =>
        \A f \in FundIndexes :
            /\ signals[f].can_execute =>
                /\ signals[f].block_reasons = <<>>
                /\ signals[f].signal_type \in {"buy", "sell", "extra_buy", "extra_sell", "hold_buy"}
            /\ (~signals[f].can_execute /\ signals[f].block_reasons = <<>>) =>
                signals[f].signal_type = "none"

\* one run with an executable signal and a signal that neither executes nor is blocked
C17_Witness ==
    /\ pc = "computed"
    /\ \E f \in FundIndexes : signals[f].can_execute
    /\ \E f \in FundIndexes : ~signals[f].can_execute /\ signals[f].block_reasons = <<>>

----------------------------------------------------------------------------
(* C18 *)

\* the deviation of fund f's signal is at or above the sell threshold of its tier
SellTriggered(f) ==
    /\ IsTimed(signals[f])
    /\ RatGE(signals[f].deviation_pct, ThresholdsOf(config[f].volatility).sell_pct)

\* fund f's latest sell or extra_sell is fewer than sell_cooldown_days days before the run
InSellCooldown(f) ==
    LET S == RowsOf(config[f].code, SellActions, trade_log)
    IN  S # {} /\ today - LatestDate(S, trade_log) < sell_cooldown_days

\* C18: a sell-triggered signal of a fund whose regular plus extra shares are 0 is not
\* executable and carries the no-position block reason first; when the fund's latest
\* sell or extra_sell is within the sell cooldown, the cooldown reason follows it and
\* the two are the block reasons, in that order.
C18_NoPositionThenCooldown ==
    pc \in {"computed", "executed"} =>
        \A f \in FundIndexes :
            (/\ SellTriggered(f)
             /\ RegularShares(config[f].code, trade_log)
                    + ExtraShares(config[f].code, trade_log) = 0) =>
                /\ ~signals[f].can_execute
                /\ Len(signals[f].block_reasons) >= 1
                /\ signals[f].block_reasons[1].kind = "no_position"
                /\ IF InSellCooldown(f)
                   THEN /\ Len(signals[f].block_reasons) = 2
                        /\ signals[f].block_reasons[2].kind = "sell_cooldown"
                   ELSE Len(signals[f].block_reasons) = 1

\* a sell trigger within the cooldown of a sell that emptied the position
C18_Witness ==
    /\ pc = "computed"
    /\ \E f \in FundIndexes :
        /\ SellTriggered(f)
        /\ RegularShares(config[f].code, trade_log)
               + ExtraShares(config[f].code, trade_log) = 0
        /\ InSellCooldown(f)
        /\ Len(signals[f].block_reasons) = 2

----------------------------------------------------------------------------
(* C19 *)

\* the rows of the loaded ledger that belong to fund f, in ledger order
OwnRows(f) == SelectSeq(trade_log, LAMBDA row : row.fund_code = config[f].code)

\* C19: the Signal of a fund is a function of that fund's configuration entry, its own
\* price series, the run day and its own ledger rows: the rows of the other funds of
\* the run, their configuration and their prices have no part in it (stated for the
\* runs over more than one fund, as compute_signals returns).
C19_SignalFromOwnDataOnly ==
    (pc = "computed" /\ Len(config) > 1) =>
        \A f \in FundIndexes :
            signals[f] = FundSignal(config[f], OwnRows(f), today, Series(histories[f]))

\* a run over two funds that both have rows in the ledger, the second one deciding a trade
C19_Witness ==
    /\ pc = "computed"
    /\ Len(config) = 2
    /\ OwnRows(1) # <<>> /\ OwnRows(2) # <<>>
    /\ signals[2].signal_type \in {"buy", "sell"}
    /\ signals[2].can_execute

----------------------------------------------------------------------------
(* C20 *)

\* the position in the configuration of the fund with this code
FundOf(fund_code) == CHOOSE f \in FundIndexes : config[f].code = fund_code

\* C20: every row a run appends has a nav above 0 and a date that is not empty and is
\* the date of the latest point of the price series fetched for its fund in that run,
\* the hold_buy of a low-tier fund whose fetch came back empty included.
C20_AppendedRowsPricedAndDated ==
    pc = "executed" =>
        \A j \in NewRows :
            /\ ledger[j].nav > 0
            /\ ledger[j].date # EmptyDate
            /\ ledger[j].date = histories[FundOf(ledger[j].fund_code)].last_date

----------------------------------------------------------------------------
(* C21 *)

\* C21: in every ledger the runs build from the empty one, the extra shares of each
\* fund (its extra_buy and extra_sell deltas summed) are 0 or 1, and while they are 1
\* its regular shares (its buy and sell deltas summed) equal max_shares: no regular
\* sell is executed while the extra share is held.
C21_ExtraShareOnTopOfFullQuota ==
    \A f \in FundIndexes :
        /\ ExtraSum(config[f].code, ledger) \in {0, 1}
        /\ ExtraSum(config[f].code, ledger) = 1 =>
               RegularSum(config[f].code, ledger) = config[f].max_shares

\* a sell trigger met while the extra share was held: the run sold the extra share and
\* left the regular quota full
C21_Witness ==
    /\ pc = "executed" /\ ~dry_run
    /\ \E f \in FundIndexes :
        /\ ExtraSum(config[f].code, trade_log) = 1
        /\ NewRows # {}
        /\ ExtraSum(config[f].code, ledger) = 0
        /\ RegularSum(config[f].code, ledger) = config[f].max_shares
        /\ config[f].max_shares > 0

----------------------------------------------------------------------------
(* C22 *)

\* the sum of all shares_delta of fund_code over the first n rows of the ledger
NetHolding(fund_code, n) ==
    SumOver({i \in 1..n : ledger[i].fund_code = fund_code}, ledger)

\* C22: in every ledger the runs build from the empty one, get_avg_cost returns None
\* for a fund exactly when the sum of all its shares_delta is 0, and the share count
\* its replay keeps equals that sum after every row (stated where execute_signals has
\* returned, the one place a ledger comes to be).
C22_AvgCostNoneIffNothingHeld ==
    pc = "executed" =>
        \A f \in FundIndexes :
            LET code == config[f].code
            IN  /\ IsNoneRat(get_avg_cost(code, ledger)) <=> NetHolding(code, Len(ledger)) = 0
                /\ \A n \in 0..Len(ledger) :
                       AvgCostReplay(code, ledger, n).shares = NetHolding(code, n)

\* a fund that bought a regular and an extra share and sold both: nothing held, no cost
C22_Witness ==
    /\ pc = "executed"
    /\ \E f \in FundIndexes :
        /\ RowsOf(config[f].code, {"extra_sell"}, ledger) # {}
        /\ RowsOf(config[f].code, {"sell"}, ledger) # {}
        /\ NetHolding(config[f].code, Len(ledger)) = 0
        /\ IsNoneRat(get_avg_cost(config[f].code, ledger))

----------------------------------------------------------------------------
(* C23 *)

\* the rows of log that belong to fund_code, whatever their action
FundRows(fund_code, log) == {i \in 1..Len(log) : log[i].fund_code = fund_code}

\* C23: the ledger of a low-tier fund with max_shares m holds nothing but one-share buy
\* rows, at most m of them; a run that finds fewer than m of them decides hold_buy and,
\* unless it is a dry run, appends exactly one more, however short the time since the
\* last one; a run that finds m of them decides none and appends nothing for the fund.
\* So the first m non-dry runs append one buy each and the later ones none.
C23_LowTierFillsThenStops ==
    \A f \in FundIndexes :
        config[f].volatility = "low" =>
            LET code   == config[f].code
                m      == config[f].max_shares
                before == Cardinality(FundRows(code, trade_log))
                after  == Cardinality(FundRows(code, ledger))
            IN  /\ \A i \in FundRows(code, ledger) :
                       ledger[i].action = "buy" /\ ledger[i].shares_delta = 1
                /\ after <= m
                /\ pc = "executed" =>
                       IF before < m
                       THEN /\ signals[f].signal_type = "hold_buy"
                            /\ signals[f].block_reasons = <<>>
                            /\ after = before + (IF dry_run THEN 0 ELSE 1)
                       ELSE /\ signals[f].signal_type = "none"
                            /\ after = before

\* a low-tier fund filled by buys fewer than buy_cooldown_days days apart, on the first
\* run after the last of them: none, and nothing appended
C23_Witness ==
    /\ pc = "executed" /\ ~dry_run
    /\ \E f \in FundIndexes :
        /\ config[f].volatility = "low"
        /\ config[f].max_shares = 2
        /\ Cardinality(FundRows(config[f].code, trade_log)) = 2
        /\ \E i, j \in FundRows(config[f].code, trade_log) :
               /\ i < j
               /\ trade_log[i].date # EmptyDate
               /\ trade_log[j].date - trade_log[i].date < buy_cooldown_days
               /\ trade_log[j].date - trade_log[i].date > 0
        /\ signals[f].signal_type = "none"
        /\ NewRows = {}

====
